---- MODULE Spec2Model ----
(***************************************************************************)
(* A model of SERIL's two source files.                                    *)
(*                                                                         *)
(*   train.py       pretrain / adapt / train: the incremental-learning    *)
(*                  driver and the guarded optimisation loop  (SpecTrain)  *)
(*   preprocess.py  OnlinePreprocessor: forward, select_feat, istft and    *)
(*                  test_istft, at the level of tensor shapes, element     *)
(*                  layouts and the order of tensor operations  (SpecFeat) *)
(***************************************************************************)
EXTENDS Integers, Sequences, FiniteSets, TLC

\* ------------------------------------------------------------------ bounds
MaxTasks == 3      \* number of (noisy, clean) dataset pairs in the config
MaxLoader == 2     \* len(train_loader)
EpochDen == 2      \* epochs are the fractions k / EpochDen
MaxEpochNum == 3   \* largest k
MaxFreq == 3       \* n_freq ranges over 2..MaxFreq
MaxHop == 2        \* hop_len ranges over 1..MaxHop
MaxTime == 4       \* samples per channel of a waveform
MaxChan == 2       \* channels of a waveform
MaxDelta == 2      \* largest delta order requested
BatchSize == 2     \* batch items of a waveform
NMels == 2         \* n_mels
NMfcc == 1         \* n_mfcc

VARIABLES
  \* ---- train.py
  config,        \* [N, L, pretrain_epochs, adapt_epochs, eval_step]
  mode,          \* what the driver runs: "pretrain_adapt" or "adapt"
  lifelong_agent,\* "none" or "agent"
  regTasks,      \* loaders update_weights has been called with, in order
  events,        \* what pretrain/adapt did, in order
  fn,            \* "main", "pretrain", "between", "adapt", "done", "raised"
  task,          \* i: task index of the running pretrain/adapt iteration
  train_loader,  \* dataset index the current train_loader was built from
  tpc,           \* position inside train
  IsAdapt,
  global_step,
  total_steps,
  batch,         \* position of the for loop in train_loader
  ran,           \* how many times this call of train has entered the loop body
  grads,         \* "zero" or "dirty": the parameters' .grad
  cur,           \* the batch in progress: [outcome, norm, stepped, penalty]
  \* ---- preprocess.py
  pp,            \* the constructed OnlinePreprocessor
  fpc,           \* "ready", "forwarded", "inverted", "tested"
  call,          \* the arguments of the last call: [wavs, feat_list]
  ret,           \* what forward did: [status, work, wavs, feats]
  rec,           \* what istft did
  test           \* how test_istft ended

tvars == <<config, mode, lifelong_agent, regTasks, events, fn, task, train_loader,
           tpc, IsAdapt, global_step, total_steps, batch, ran, grads, cur>>

fvars == <<pp, fpc, call, ret, rec, test>>

vars == <<tvars, fvars>>

\* no OnlinePreprocessor is constructed by train.py
NoPreprocessor ==
  /\ pp = <<>>
  /\ fpc = "none"
  /\ call = <<>>
  /\ ret = <<>>
  /\ rec = <<>>
  /\ test = "none"

\* ================================================================ train.py

Epochs == 0..MaxEpochNum

Configs ==
  [N : 1..MaxTasks, L : 1..MaxLoader, pretrain_epochs : Epochs,
   adapt_epochs : Epochs, eval_step : {1, 2}]

\* outcome: how lines 74-82 ended; raised: the RuntimeError in flight
NoBatch == [outcome |-> "none", raised |-> "none", norm |-> "none", stepped |-> FALSE,
            with_penalty |-> FALSE, penalty |-> <<>>]

\* int(epochs * len(train_loader)), epochs = k / EpochDen
TotalSteps(isAdapt, cfg) ==
  IF isAdapt THEN (cfg.adapt_epochs * cfg.L) \div EpochDen
  ELSE (cfg.pretrain_epochs * cfg.L) \div EpochDen

\* variant of UsePenalty: the term added whenever an agent exists, pretraining included
UsePenalty_AnyCall(isAdapt, agent) == agent # "none"

\* line 79: the regularisation term is added to the loss
UsePenalty(isAdapt, agent) == isAdapt /\ agent # "none"

\* variant of SkipUpdate: only a nan norm skips the optimizer step
SkipUpdate_NanOnly(norm) == norm = "nan"

\* line 93: the update is skipped
SkipUpdate(norm) == norm = "nan" \/ norm = "inf"

\* line 124: the except clause swallows the error
IsOOM(e) == e = "oom"

InitTrain ==
  /\ NoPreprocessor
  /\ config \in Configs
  /\ mode \in {"pretrain_adapt", "adapt"}
  /\ lifelong_agent \in {"none", "agent"}
  \* adapt alone runs on the agent saved by an earlier pretrain (synapses_T0)
  /\ regTasks = IF mode = "adapt" /\ lifelong_agent = "agent" THEN <<0>> ELSE <<>>
  /\ events = <<>>
  /\ fn = "main"
  /\ task = 0
  /\ train_loader = 0
  /\ tpc = "idle"
  /\ IsAdapt = FALSE
  /\ global_step = 0
  /\ total_steps = 0
  /\ batch = 0
  /\ ran = 0
  /\ grads = "zero"
  /\ cur = NoBatch

\* train, lines 52-69: everything before the while loop
TrainEnter(isAdapt, t) ==
  /\ IsAdapt' = isAdapt
  /\ global_step' = 1
  /\ total_steps' = TotalSteps(isAdapt, config)
  /\ tpc' = "while"
  /\ batch' = 0
  /\ cur' = NoBatch
  /\ ran' = 0
  /\ events' = Append(events, <<"train_begin", t>>)

\* pretrain, lines 14-24
PretrainCall ==
  /\ fn = "main" /\ mode = "pretrain_adapt"
  /\ fn' = "pretrain"
  /\ task' = 0
  /\ train_loader' = 0
  /\ TrainEnter(FALSE, 0)
  /\ UNCHANGED fvars
  /\ UNCHANGED <<config, mode, lifelong_agent, regTasks, grads>>

\* the events of pretrain after train returned, lines 26-28
PretrainTail(agent) ==
  IF agent = "none" THEN <<<<"save_model", 0>>>>
  ELSE <<<<"save_model", 0>>, <<"update_weights", 0, train_loader>>, <<"save_synapses", 0>>>>

\* pretrain, lines 26-29
PretrainReturn ==
  /\ fn = "pretrain" /\ tpc = "ret"
  /\ events' = events \o <<<<"train_end", 0>>>> \o PretrainTail(lifelong_agent)
  /\ IF lifelong_agent = "none"
     THEN \* None.update_weights: AttributeError
          /\ fn' = "raised"
          /\ UNCHANGED regTasks
     ELSE /\ regTasks' = Append(regTasks, train_loader)
          /\ fn' = "between"
  /\ tpc' = "idle"
  /\ UNCHANGED fvars
  /\ UNCHANGED <<config, mode, lifelong_agent, task, train_loader, IsAdapt, global_step,
                 total_steps, batch, ran, grads, cur>>

\* adapt, lines 31-36: the call and the first evaluation of the range
AdaptCall ==
  /\ (fn = "main" /\ mode = "adapt") \/ fn = "between"
  /\ IF 1 < config.N
     THEN /\ fn' = "adapt"
          /\ task' = 1
          /\ train_loader' = 1
          /\ TrainEnter(TRUE, 1)
     ELSE /\ fn' = "done"
          /\ UNCHANGED <<task, train_loader, IsAdapt, global_step, total_steps, tpc,
                         batch, ran, cur, events>>
  /\ UNCHANGED fvars
  /\ UNCHANGED <<config, mode, lifelong_agent, regTasks, grads>>

\* the events of one adapt iteration after train returned, lines 44-48
AdaptTail(agent, t) ==
  IF agent = "none" THEN <<<<"save_model", t>>>>
  ELSE <<<<"save_model", t>>, <<"update_weights", t, train_loader>>,
         <<"save_synapses", t>>>>

\* adapt, lines 44-48 and the next turn of the for loop, lines 36-43
AdaptReturn ==
  /\ fn = "adapt" /\ tpc = "ret"
  /\ regTasks' = IF lifelong_agent = "none" THEN regTasks
                 ELSE Append(regTasks, train_loader)
  /\ IF task + 1 < config.N
     THEN /\ task' = task + 1
          /\ train_loader' = task + 1
          /\ IsAdapt' = TRUE
          /\ global_step' = 1
          /\ total_steps' = TotalSteps(TRUE, config)
          /\ tpc' = "while"
          /\ batch' = 0
          /\ ran' = 0
          /\ cur' = NoBatch
          /\ events' = events \o <<<<"train_end", task>>>> \o AdaptTail(lifelong_agent, task)
                              \o <<<<"train_begin", task + 1>>>>
          /\ UNCHANGED fn
     ELSE /\ fn' = "done"
          /\ tpc' = "idle"
          /\ events' = events \o <<<<"train_end", task>>>> \o AdaptTail(lifelong_agent, task)
          /\ UNCHANGED <<task, train_loader, IsAdapt, global_step, total_steps, batch, ran,
                         cur>>
  /\ UNCHANGED fvars
  /\ UNCHANGED <<config, mode, lifelong_agent, grads>>

\* line 71
While ==
  /\ tpc = "while"
  /\ IF global_step <= total_steps
     THEN tpc' = "for" /\ batch' = 0
     ELSE tpc' = "ret" /\ UNCHANGED batch
  /\ cur' = NoBatch
  /\ UNCHANGED fvars
  /\ UNCHANGED <<config, mode, lifelong_agent, regTasks, events, fn, task, train_loader,
                 IsAdapt, global_step, total_steps, ran, grads>>

\* line 72
For ==
  /\ tpc = "for"
  /\ IF batch < config.L
     THEN tpc' = "try" /\ ran' = ran + 1
     ELSE tpc' = "while" /\ UNCHANGED ran
  /\ cur' = NoBatch
  /\ UNCHANGED fvars
  /\ UNCHANGED <<config, mode, lifelong_agent, regTasks, events, fn, task, train_loader,
                 IsAdapt, global_step, total_steps, batch, grads>>

\* lines 74-82: forward, penalty, backward, together on success
TryBody_ok ==
  /\ tpc = "try"
  /\ cur' = [NoBatch EXCEPT !.outcome = "ok",
                            !.with_penalty = UsePenalty(IsAdapt, lifelong_agent),
                            !.penalty = IF UsePenalty(IsAdapt, lifelong_agent)
                                        THEN regTasks ELSE <<>>]
  /\ grads' = "dirty"
  /\ tpc' = "clip"
  /\ UNCHANGED fvars
  /\ UNCHANGED <<config, mode, lifelong_agent, regTasks, events, fn, task, train_loader,
                 IsAdapt, global_step, total_steps, batch, ran>>

\* lines 74-97: a RuntimeError raised before optimizer.step() has run (in the
\* transfer, the forward pass, the penalty, the backward pass, the clipping or
\* step itself); the backward pass may have written gradients already
TryBody_raise ==
  /\ tpc = "try"
  /\ \E e \in {"oom", "other"}, g \in {grads, "dirty"} :
       /\ cur' = [NoBatch EXCEPT !.outcome = e, !.raised = e]
       /\ grads' = g
       /\ tpc' = "except"
  /\ UNCHANGED fvars
  /\ UNCHANGED <<config, mode, lifelong_agent, regTasks, events, fn, task, train_loader,
                 IsAdapt, global_step, total_steps, batch, ran>>

\* lines 85-99: clipping, the nan/inf guard, the update and zero_grad
Update ==
  /\ tpc = "clip"
  /\ \E norm \in {"finite", "nan", "inf"} :
       cur' = [cur EXCEPT !.norm = norm, !.stepped = ~SkipUpdate(norm)]
  /\ grads' = "zero"
  /\ tpc' = "eval"
  /\ UNCHANGED fvars
  /\ UNCHANGED <<config, mode, lifelong_agent, regTasks, events, fn, task, train_loader,
                 IsAdapt, global_step, total_steps, batch, ran>>

\* lines 102-115: logging, and the evaluation every eval_step steps, which may
\* raise as well
Evaluate ==
  /\ tpc = "eval"
  /\ IF global_step % config.eval_step = 0
     THEN \E e \in {"ok", "oom", "other"} :
            IF e = "ok" THEN tpc' = "advance" /\ UNCHANGED cur
            ELSE tpc' = "except" /\ cur' = [cur EXCEPT !.raised = e]
     ELSE tpc' = "advance" /\ UNCHANGED cur
  /\ UNCHANGED fvars
  /\ UNCHANGED <<config, mode, lifelong_agent, regTasks, events, fn, task, train_loader,
                 IsAdapt, global_step, total_steps, batch, ran, grads>>

\* lines 123-129
Except ==
  /\ tpc = "except"
  /\ IF IsOOM(cur.raised)
     THEN /\ grads' = "zero"
          /\ tpc' = "advance"
          /\ UNCHANGED fn
     ELSE \* raise: out of train, and out of pretrain/adapt, which catch nothing
          /\ fn' = "raised"
          /\ tpc' = "idle"
          /\ UNCHANGED grads
  /\ UNCHANGED fvars
  /\ UNCHANGED <<config, mode, lifelong_agent, regTasks, events, task, train_loader,
                 IsAdapt, global_step, total_steps, batch, ran, cur>>

\* lines 131-132 and the step of the for loop
Advance ==
  /\ tpc = "advance"
  /\ global_step' = global_step + 1
  /\ batch' = batch + 1
  /\ tpc' = "for"
  /\ UNCHANGED fvars
  /\ UNCHANGED <<config, mode, lifelong_agent, regTasks, events, fn, task, train_loader,
                 IsAdapt, total_steps, ran, grads, cur>>

NextTrain ==
  \/ PretrainCall
  \/ PretrainReturn
  \/ AdaptCall
  \/ AdaptReturn
  \/ While
  \/ For
  \/ TryBody_ok
  \/ TryBody_raise
  \/ Update
  \/ Evaluate
  \/ Except
  \/ Advance

SpecTrain == InitTrain /\ [][NextTrain]_vars

\* =========================================================== preprocess.py

\* ---- tensors: a shape and the elements in row-major (contiguous) order

RECURSIVE Prod(_)
Prod(s) == IF s = <<>> THEN 1 ELSE Head(s) * Prod(Tail(s))

\* the multi-index (from 0) of the element at offset k (from 0)
RECURSIVE Unravel(_, _)
Unravel(shape, k) ==
  IF shape = <<>> THEN <<>>
  ELSE LET rest == Prod(Tail(shape))
       IN  <<k \div rest>> \o Unravel(Tail(shape), k % rest)

\* the offset (from 0) of the element at multi-index idx
RECURSIVE Ravel(_, _)
Ravel(shape, idx) ==
  IF shape = <<>> THEN 0
  ELSE Head(idx) * Prod(Tail(shape)) + Ravel(Tail(shape), Tail(idx))

\* position (from 1) of dimension d, which may count from the end
Axis(shape, d) == IF d < 0 THEN Len(shape) + d + 1 ELSE d + 1

Swap(s, a, b) ==
  [k \in 1..Len(s) |-> IF k = a THEN s[b] ELSE IF k = b THEN s[a] ELSE s[k]]

Without(s, a) == [k \in 1..(Len(s) - 1) |-> IF k < a THEN s[k] ELSE s[k + 1]]

Inserted(s, a, x) ==
  [k \in 1..(Len(s) + 1) |-> IF k < a THEN s[k] ELSE IF k = a THEN x ELSE s[k - 1]]

At(t, idx) == t.data[Ravel(t.shape, idx) + 1]

\* Tensor.transpose(d1, d2).contiguous()
Transpose(t, d1, d2) ==
  LET a  == Axis(t.shape, d1)
      b  == Axis(t.shape, d2)
      ns == Swap(t.shape, a, b)
  IN  [shape |-> ns,
       data  |-> [k \in 1..Prod(ns) |-> At(t, Swap(Unravel(ns, k - 1), a, b))]]

\* Tensor.reshape / Tensor.view with one dimension given as -1
Reshape(t, ns) ==
  LET known == Prod([k \in 1..Len(ns) |-> IF ns[k] = -1 THEN 1 ELSE ns[k]])
  IN  [shape |-> [k \in 1..Len(ns) |->
                     IF ns[k] = -1 THEN Prod(t.shape) \div known ELSE ns[k]],
       data  |-> t.data]

ReshapeFits(t, ns) ==
  LET known == Prod([k \in 1..Len(ns) |-> IF ns[k] = -1 THEN 1 ELSE ns[k]])
  IN  known > 0 /\ Prod(t.shape) % known = 0

\* Tensor.select(dim, index), index already within 0..size-1
Select(t, d, index) ==
  LET a  == Axis(t.shape, d)
      ns == Without(t.shape, a)
  IN  [shape |-> ns,
       data  |-> [k \in 1..Prod(ns) |-> At(t, Inserted(Unravel(ns, k - 1), a, index))]]

\* a freshly computed tensor: every element is named by its own index
Fresh(shape) == [shape |-> shape, data |-> [k \in 1..Prod(shape) |-> Unravel(shape, k - 1)]]

\* ---- the preprocessor

\* an argument that may be None
None == [none |-> TRUE, val |-> <<>>]
Some(x) == [none |-> FALSE, val |-> x]

\* line 67
FeatTypes == {"complx", "linear", "phase", "mel", "mfcc"}

\* names bound in forward when locals() is taken, line 115: the five
\* representations are tensors, and so is wavs
LocalTensors == FeatTypes \cup {"wavs"}

\* the names hop and win of line 43 are bound nowhere in preprocess.py; they are
\* taken to be the constructor's hop_len and win_len
hop(hop_len) == hop_len
win(win_len) == win_len

\* line 42
NFft(n_freq) == (n_freq - 1) * 2

\* __init__, lines 40-54
OnlinePreprocessor(sample_rate, win_len, hop_len, n_freq, n_mels, n_mfcc, feat_list) ==
  [args |-> [sample_rate |-> sample_rate, win_len |-> win_len, hop_len |-> hop_len,
             n_freq |-> n_freq],
   n_fft |-> NFft(n_freq), hop_length |-> hop(hop_len), win_length |-> win(win_len),
   n_mels |-> n_mels, n_mfcc |-> n_mfcc, feat_list |-> feat_list,
   pseudo_wav |-> <<2, 2, sample_rate>>]

\* variant of Frames: center=False, no padding of the signal
Frames_NoCenter(time, n_fft, hop_length) == 1 + (time - n_fft) \div hop_length

\* torch.stft with center=True (line 46): the signal is padded by n_fft // 2 at
\* both ends and framed every hop_length samples
Frames(time, n_fft, hop_length) ==
  1 + (time + 2 * (n_fft \div 2) - n_fft) \div hop_length

\* torch.stft with onesided=True (line 46)
FreqBins(n_fft) == n_fft \div 2 + 1

\* torch.stft fails: reflect padding needs more samples than it pads, and the
\* window must fit the transform
StftFails(p, time) ==
  \/ time <= p.n_fft \div 2
  \/ p.win_length > p.n_fft
  \/ p.hop_length <= 0

\* get_feat_config, lines 66-78: the five fields of a feature request; chan_int
\* FALSE stands for a channel that is a float (channel + 0.5)
Config(feat_type, channel, chan_int, log, delta, cmvn) ==
  [feat_type |-> feat_type, channel |-> channel, chan_int |-> chan_int,
   log |-> log, delta |-> delta, cmvn |-> cmvn]

\* the assertions of get_feat_config, lines 67-71
ValidConfig(a) ==
  /\ a.feat_type \in FeatTypes
  /\ a.chan_int
  /\ a.delta >= 0

Plain(feat_type, channel) == Config(feat_type, channel, TRUE, FALSE, 0, FALSE)

\* self._melscale and self._mfcc_trans (lines 94-95) are assigned nowhere in
\* preprocess.py; they are taken to be the mel projection of the magnitude
\* and the MFCC of the waveform, framed like the spectrogram
MelShape(p, w) == <<w[1], w[2], p.n_mels, Frames(w[3], p.n_fft, p.hop_length)>>
MfccShape(p, w) == <<w[1], w[2], p.n_mfcc, Frames(w[3], p.n_fft, p.hop_length)>>

\* the representations of lines 90-96 for a waveform of shape w = (B, C, time)
Variable(p, w, name) ==
  LET T == Frames(w[3], p.n_fft, p.hop_length)
      F == FreqBins(p.n_fft)
  IN  CASE name = "wavs"   -> Fresh(w)
        [] name = "linear" -> Fresh(<<w[1], w[2], F, T>>)
        [] name = "phase"  -> Fresh(<<w[1], w[2], F, T>>)
        [] name = "mel"    -> Fresh(MelShape(p, w))
        [] name = "mfcc"   -> Fresh(MfccShape(p, w))
        [] name = "complx" ->
             \* line 96: reshape(*mfcc.shape[:2], -1, mfcc.size(-1))
             LET m == MfccShape(p, w)
             IN  Reshape(Transpose(Fresh(<<w[1], w[2], F, T, 2>>), -1, -2),
                         <<m[1], m[2], -1, m[4]>>)

\* variant of Deltas: every delta computed from feats[0] instead of feats[-1]
Deltas_OfFirst(feats, n) ==
  feats \o [k \in 1..n |-> Append(feats[1], "delta")]

\* lines 104-107: each compute_deltas is applied to the last tensor of the list
RECURSIVE Deltas(_, _)
Deltas(feats, n) ==
  IF n <= 0 THEN feats
  ELSE Deltas(Append(feats, Append(feats[Len(feats)], "delta")), n - 1)

\* variant of Stacked: log applied after the deltas are stacked
Stacked_LogLast(log, delta) ==
  LET d == Deltas(<<<<>>>>, delta)
  IN  IF log THEN [k \in 1..Len(d) |-> Append(d[k], "log")] ELSE d

\* lines 102-108: the tensors concatenated along the feature axis, each given
\* by the operations applied to the selected representation, in order
Stacked(log, delta) == Deltas(<<IF log THEN <<"log">> ELSE <<>>>>, delta)

\* line 100: variables[feat_type].select(dim=-3, index=channel), index within range
Raw(p, w, feat_type, index) == Select(Variable(p, w, feat_type), -3, index)

\* select_feat, lines 99-112: the tensor it returns is described by the
\* representation and channel it selected, the operations applied to each of the
\* tensors concatenated along the feature axis, whether cmvn was applied to
\* the whole, and its shape after the transpose of line 116
select_feat(p, w, a) ==
  IF a.feat_type \notin LocalTensors THEN [status |-> "KeyError"]
  ELSE
    LET vs   == Variable(p, w, a.feat_type).shape
        size == vs[Axis(vs, -3)]
    IN  IF ~a.chan_int THEN [status |-> "TypeError"]
        ELSE IF a.channel >= size \/ a.channel < -size THEN [status |-> "IndexError"]
        ELSE
          LET index  == IF a.channel < 0 THEN a.channel + size ELSE a.channel
              rs     == Without(vs, Axis(vs, -3))
              n      == Len(rs)
              blocks == Stacked(a.log, a.delta)
          IN  [status |-> "ok",
               feat_type |-> a.feat_type,
               index |-> index,
               blocks |-> blocks,
               cmvn |-> a.cmvn,
               shape |-> SubSeq(rs, 1, n - 2) \o <<rs[n], Len(blocks) * rs[n - 1]>>]

\* line 116: the requests are served in order; the first error ends the call
RECURSIVE SelectAll(_, _, _, _)
SelectAll(p, w, fl, done) ==
  IF fl = <<>> THEN [status |-> "ok", feats |-> done]
  ELSE LET f == select_feat(p, w, Head(fl))
       IN  IF f.status # "ok" THEN [status |-> f.status, feats |-> <<>>]
           ELSE SelectAll(p, w, Tail(fl), Append(done, f))

RECURSIVE MaxChannel(_)
MaxChannel(fl) ==
  IF Len(fl) = 1 THEN fl[1].channel
  ELSE LET m == MaxChannel(Tail(fl))
       IN  IF fl[1].channel > m THEN fl[1].channel ELSE m

Failed(status, work) == [status |-> status, work |-> work, wavs |-> <<>>, feats |-> <<>>]

NumericWork == <<"stft", "magphase", "melscale", "mfcc">>

\* forward, lines 80-117; wavs and feat_list may be None
forward(p, wavs, feat_list) ==
  LET fl == IF feat_list.none THEN p.feat_list ELSE feat_list
  IN
  IF fl.none THEN Failed("AssertionError", <<>>)                   \* line 59
  ELSE IF wavs.none /\ fl.val = <<>> THEN Failed("ValueError", <<>>)  \* max([])
  ELSE IF wavs.none /\ MaxChannel(fl.val) + 1 \notin {2, -1}
       THEN Failed("RuntimeError", <<>>)                           \* expand, line 86
  ELSE
    LET w == IF wavs.none THEN p.pseudo_wav ELSE wavs.val
    IN  IF Len(w) < 3 THEN Failed("AssertionError", <<>>)           \* line 87
        ELSE IF StftFails(p, w[3]) THEN Failed("RuntimeError", <<"stft">>)
        ELSE LET r == SelectAll(p, w, fl.val, <<>>)
             IN  [status |-> r.status, work |-> NumericWork, wavs |-> w,
                  feats |-> r.feats]

\* the tensor forward returned for request f on waveform w: element (.., t, j)
\* is element (.., j mod D, t) of the selected representation after the
\* operations of block j div D, and after cmvn if requested
Returned(p, w, f) ==
  LET raw == Raw(p, w, f.feat_type, f.index)
      n == Len(raw.shape)
      D == raw.shape[n - 1]
      post == IF f.cmvn THEN <<"cmvn">> ELSE <<>>
  IN  [shape |-> f.shape,
       data  |-> [k \in 1..Prod(f.shape) |->
                    LET idx == Unravel(f.shape, k - 1)
                        t   == idx[n - 1]
                        j   == idx[n]
                    IN  [of  |-> f.feat_type,
                         at  |-> At(raw, SubSeq(idx, 1, n - 2) \o <<j % D, t>>),
                         ops |-> f.blocks[j \div D + 1] \o post]]]

NoSignal(status) == [status |-> status, handed |-> <<>>, shape |-> <<>>]

\* torchaudio.functional.istft as line 50 configures it (center, onesided, a
\* periodic Hann window of win_length = n_fft samples, length unset), on a
\* tensor of shape (.., freq, frames, 2): what it returns has
\* hop_length * (frames - 1) samples
_istft(p, c) ==
  LET n      == Len(c.shape)
      frames == c.shape[n - 1]
  IN  IF n < 3 \/ c.shape[n] # 2 THEN NoSignal("AssertionError")
      ELSE IF c.shape[n - 2] # p.n_fft \div 2 + 1 THEN NoSignal("AssertionError")
      ELSE IF p.hop_length > p.win_length \/ p.win_length > p.n_fft
           THEN NoSignal("AssertionError")
      ELSE IF frames < 2 THEN NoSignal("RuntimeError")        \* nothing left after the trim
      ELSE IF p.hop_length >= p.n_fft THEN NoSignal("AssertionError")  \* window envelope is 0
      ELSE [status |-> "ok", handed |-> c,
            shape |-> SubSeq(c.shape, 1, n - 3) \o <<p.hop_length * (frames - 1)>>]

\* variant of Interleaved: the view without the transpose(-2, -3)
Interleaved_NoTranspose(c) ==
  LET n == Len(c.shape)
  IN  Reshape(c, <<c.shape[1], -1, c.shape[n - 1], 2>>)

\* line 130: view(*shape[:-1], -1, 2).transpose(-2, -3)
Interleaved(c) ==
  Transpose(Reshape(c, SubSeq(c.shape, 1, Len(c.shape) - 1) \o <<-1, 2>>), -2, -3)

\* istft, lines 127-133, on a complex tensor
istft_complxs(p, c) ==
  IF c.shape[Len(c.shape)] # 2
  THEN IF c.shape[Len(c.shape)] % 2 # 0 THEN NoSignal("RuntimeError")
       ELSE _istft(p, Interleaved(c))
  ELSE _istft(p, c)

\* line 126: linears.pow(1/linear_power).unsqueeze(-1) * stack([cos, sin], -1)
Polar(lin, ph, linear_power) ==
  LET shape == Append(lin.shape, 2)
  IN  [shape |-> shape,
       data  |-> [k \in 1..Prod(shape) |->
                    LET idx == Unravel(shape, k - 1)
                        at  == SubSeq(idx, 1, Len(idx) - 1)
                    IN  [of |-> "polar", mag |-> At(lin, at), root |-> linear_power,
                         arg |-> At(ph, at), part |-> idx[Len(idx)]]]]

\* istft, lines 119-134; each argument is None or a tensor
istft(p, linears, phases, linear_power, complxs) ==
  IF complxs.none /\ (linears.none \/ phases.none) THEN NoSignal("AssertionError")
  ELSE IF ~complxs.none THEN istft_complxs(p, complxs.val)
  ELSE LET lin == Transpose(linears.val, -1, -2)
           ph  == Transpose(phases.val, -1, -2)
       IN  IF lin.shape # ph.shape THEN NoSignal("RuntimeError")
           ELSE istft_complxs(p, Polar(lin, ph, linear_power))

\* what _magphase (line 51) computes: the magnitude to this power
MagPower == 2

\* the signal istft computes from the tensor it handed to the inverse transform
\* is channel c of the waveform the features were computed from exactly when
\* that tensor is, element by element, the transform of that channel
IsStftOf(handed, c) ==
  \A k \in 1..Prod(handed.shape) :
    LET idx == Unravel(handed.shape, k - 1)
        b == idx[1]  f == idx[2]  t == idx[3]  r == idx[4]
        e == handed.data[k]
    IN  IF e.of = "polar"
        THEN /\ e.mag = [of |-> "linear", at |-> <<b, c, f, t>>, ops |-> <<>>]
             /\ e.arg = [of |-> "phase", at |-> <<b, c, f, t>>, ops |-> <<>>]
             /\ e.root = MagPower
             /\ e.part = r
        ELSE e = [of |-> "complx", at |-> <<b, c, f, t, r>>, ops |-> <<>>]

\* torch.allclose(wavs.select(dim=-2, index=c), y, atol=epsilon), lines 148-149,
\* for wavs of shape (B, C, time)
allclose(w, c, y) ==
  IF y.shape # <<w[1], w[3]>> THEN "RuntimeError"       \* sizes do not match
  ELSE IF IsStftOf(y.handed, c) THEN "True"
  ELSE "False"

\* line 142-146
TestFeatList == <<Plain("complx", 0), Plain("linear", 1), Plain("phase", 1)>>

\* ---- the calls explored

Channels == -1..MaxChan

Requests ==
  {Config(ft, ch, TRUE, lg, d, cm) :
     ft \in LocalTensors \cup {"bogus"}, ch \in Channels, lg \in BOOLEAN,
     d \in -1..MaxDelta, cm \in BOOLEAN}
  \cup {Config(ft, 0, FALSE, FALSE, 0, FALSE) : ft \in FeatTypes}

FeatLists ==
  {<<>>} \cup {<<a>> : a \in Requests}
  \cup {<<Config("linear", c1, TRUE, lg, d, FALSE), Plain("phase", c2)>> :
          c1 \in 0..1, c2 \in 0..1, lg \in BOOLEAN, d \in 0..1}
  \cup {<<Plain("mel", 0), Config(ft, 0, TRUE, FALSE, 0, TRUE)>> :
          ft \in {"mfcc", "bogus"}}
  \cup {TestFeatList}

Waveforms ==
  {<<BatchSize, time>> : time \in 1..MaxTime}
  \cup {<<BatchSize, C, time>> : C \in 1..MaxChan, time \in 1..MaxTime}

\* the constructions explored: the window as long as the transform (as the
\* defaults, 512 = (257 - 1) * 2) and frames that overlap (hop_len < n_fft)
Preprocessors ==
  UNION {{OnlinePreprocessor(MaxTime, NFft(n_freq), hop_len, n_freq, NMels, NMfcc, fl) :
            hop_len \in {h \in 1..MaxHop : h < NFft(n_freq)},
            fl \in {None, Some(<<Plain("linear", 1)>>)}} :
         n_freq \in 2..MaxFreq}

InitFeat ==
  /\ config = <<>> /\ mode = "none" /\ lifelong_agent = "none" /\ regTasks = <<>>
  /\ events = <<>> /\ fn = "none" /\ task = 0 /\ train_loader = 0 /\ tpc = "idle"
  /\ IsAdapt = FALSE /\ global_step = 0 /\ total_steps = 0 /\ batch = 0 /\ ran = 0
  /\ grads = "zero" /\ cur = NoBatch
  /\ pp \in Preprocessors
  /\ fpc = "ready"
  /\ call = <<>>
  /\ ret = <<>>
  /\ rec = <<>>
  /\ test = "none"

\* a call of forward
Forward ==
  /\ fpc = "ready"
  /\ \E wavs \in {None} \cup {Some(w) : w \in Waveforms},
        feat_list \in {None} \cup {Some(fl) : fl \in FeatLists} :
       /\ call' = [wavs |-> wavs, feat_list |-> feat_list]
       /\ ret' = forward(pp, wavs, feat_list)
  /\ fpc' = "forwarded"
  /\ UNCHANGED <<pp, rec, test>>
  /\ UNCHANGED tvars

\* a call of istft on a complex spectrogram that forward returned
IstftComplx ==
  /\ fpc = "forwarded" /\ ret.status = "ok"
  /\ \E a \in 1..Len(ret.feats) :
       /\ ret.feats[a].feat_type = "complx"
       /\ rec' = [via |-> <<a>>, root |-> 2]
                 @@ istft(pp, None, None, 2, Some(Returned(pp, ret.wavs, ret.feats[a])))
  /\ fpc' = "inverted"
  /\ UNCHANGED <<pp, call, ret, test>>
  /\ UNCHANGED tvars

\* a call of istft on a magnitude and a phase that forward returned
IstftMagPhase ==
  /\ fpc = "forwarded" /\ ret.status = "ok"
  /\ \E a \in 1..Len(ret.feats), b \in 1..Len(ret.feats), linear_power \in {1, 2} :
       /\ ret.feats[a].feat_type = "linear"
       /\ ret.feats[b].feat_type = "phase"
       /\ rec' = [via |-> <<a, b>>, root |-> linear_power]
                 @@ istft(pp, Some(Returned(pp, ret.wavs, ret.feats[a])),
                          Some(Returned(pp, ret.wavs, ret.feats[b])),
                          linear_power, None)
  /\ fpc' = "inverted"
  /\ UNCHANGED <<pp, call, ret, test>>
  /\ UNCHANGED tvars

\* test_istft, lines 136-147: the call of forward
TestIstft_forward ==
  /\ fpc = "ready"
  /\ \E wavs \in {None} \cup {Some(w) : w \in Waveforms} :
       /\ call' = [wavs |-> wavs, feat_list |-> Some(TestFeatList)]
       /\ ret' = forward(pp, IF wavs.none THEN Some(pp.pseudo_wav) ELSE wavs,
                         Some(TestFeatList))
  /\ IF ret'.status = "ok"
     THEN fpc' = "test_complx" /\ test' = "running"
     ELSE fpc' = "tested" /\ test' = ret'.status
  /\ UNCHANGED <<pp, rec>>
  /\ UNCHANGED tvars

\* test_istft, line 148: istft(complxs=complxs)
TestIstft_complx ==
  /\ fpc = "test_complx"
  /\ rec' = [via |-> <<1>>, root |-> 2]
            @@ istft(pp, None, None, 2, Some(Returned(pp, ret.wavs, ret.feats[1])))
  /\ IF rec'.status = "ok"
     THEN fpc' = "test_complx_close" /\ UNCHANGED test
     ELSE fpc' = "tested" /\ test' = rec'.status
  /\ UNCHANGED <<pp, call, ret>>
  /\ UNCHANGED tvars

\* test_istft, line 148: the assertion on channel1 = 0
TestIstft_complx_close ==
  /\ fpc = "test_complx_close"
  /\ LET close == allclose(ret.wavs, 0, rec)
     IN  IF close = "True" THEN fpc' = "test_polar" /\ UNCHANGED test
         ELSE /\ fpc' = "tested"
              /\ test' = IF close = "False" THEN "AssertionError" ELSE close
  /\ UNCHANGED <<pp, call, ret, rec>>
  /\ UNCHANGED tvars

\* test_istft, line 149: istft(linears=linears, phases=phases)
TestIstft_polar ==
  /\ fpc = "test_polar"
  /\ rec' = [via |-> <<2, 3>>, root |-> 2]
            @@ istft(pp, Some(Returned(pp, ret.wavs, ret.feats[2])),
                     Some(Returned(pp, ret.wavs, ret.feats[3])), 2, None)
  /\ IF rec'.status = "ok"
     THEN fpc' = "test_polar_close" /\ UNCHANGED test
     ELSE fpc' = "tested" /\ test' = rec'.status
  /\ UNCHANGED <<pp, call, ret>>
  /\ UNCHANGED tvars

\* test_istft, lines 149-150: the assertion on channel2 = 1, and the message
TestIstft_polar_close ==
  /\ fpc = "test_polar_close"
  /\ LET close == allclose(ret.wavs, 1, rec)
     IN  test' = IF close = "True" THEN "passed"
                 ELSE IF close = "False" THEN "AssertionError" ELSE close
  /\ fpc' = "tested"
  /\ UNCHANGED <<pp, call, ret, rec>>
  /\ UNCHANGED tvars

NextFeat ==
  \/ Forward
  \/ IstftComplx
  \/ IstftMagPhase
  \/ TestIstft_forward
  \/ TestIstft_complx
  \/ TestIstft_complx_close
  \/ TestIstft_polar
  \/ TestIstft_polar_close

SpecFeat == InitFeat /\ [][NextFeat]_vars

\* ======================================================= claims: preprocess

\* the request list forward served
Requested == IF call.feat_list.none THEN pp.feat_list.val ELSE call.feat_list.val

Returns == fpc = "forwarded" /\ ret.status = "ok"

Max0(n) == IF n > 0 THEN n ELSE 0

Repeat(x, n) == [k \in 1..n |-> x]

\* no log, no delta, no cmvn
Untouched(f) == f.blocks = <<<<>>>> /\ ~f.cmvn

\* C1: istft of the complx feature of a channel, and istft of the linear and
\* phase features of a channel with linear_power = 2, reproduce that channel
\* of the waveform: a signal of the waveform's batch size and length that is
\* the inverse transform of exactly that channel's transform.
C1_RoundTrip ==
  ( /\ fpc = "inverted"
    /\ rec.root = 2
    /\ \A a \in 1..Len(Requested) : ValidConfig(Requested[a]) /\ Requested[a].channel >= 0
    /\ \A a \in 1..Len(rec.via) :
         /\ Untouched(ret.feats[rec.via[a]])
         /\ ret.feats[rec.via[a]].index = ret.feats[rec.via[1]].index )
  => /\ rec.status = "ok"
     /\ rec.shape = <<ret.wavs[1], ret.wavs[3]>>
     /\ IsStftOf(rec.handed, ret.feats[rec.via[1]].index)

\* the feature dimension of a representation
FeatureDim(feat_type) ==
  CASE feat_type = "complx" -> 2 * pp.args.n_freq
    [] feat_type = "linear" -> pp.args.n_freq
    [] feat_type = "phase"  -> pp.args.n_freq
    [] feat_type = "mel"    -> pp.n_mels
    [] feat_type = "mfcc"   -> pp.n_mfcc

\* C2: a request with delta = n >= 0 on a representation of feature dimension
\* D returns feature dimension (n + 1) * D and the representation's time
\* length; the blocks along the feature axis are the original, then for
\* k = 1..n the delta of block k - 1.
C2_DeltaStacking ==
  Returns =>
    \A a \in 1..Len(ret.feats) :
      LET q == Requested[a]
          f == ret.feats[a]
          n == Len(f.shape)
      IN  q.feat_type \in FeatTypes /\ q.delta >= 0 =>
            /\ f.shape[n] = (q.delta + 1) * FeatureDim(q.feat_type)
            /\ f.shape[n - 1] = ret.wavs[3] \div pp.args.hop_len + 1
            /\ Len(f.blocks) = q.delta + 1
            /\ "delta" \notin {f.blocks[1][j] : j \in 1..Len(f.blocks[1])}
            /\ \A k \in 2..Len(f.blocks) : f.blocks[k] = Append(f.blocks[k - 1], "delta")

\* delta = 2 requested on a logged mel spectrum
C2_Witness ==
  /\ Returns
  /\ \E a \in 1..Len(ret.feats) :
       /\ Requested[a].delta = 2 /\ Requested[a].log /\ Requested[a].feat_type = "mel"
       /\ Requested[a].channel = 0
       /\ ret.feats[a].blocks[3] = <<"log", "delta", "delta">>
       /\ ret.feats[a].shape[3] = 3 * NMels

\* C3: the steps of select_feat come in the order channel selection, log,
\* delta stacking, cmvn: every block starts from the selected channel, log (if
\* requested, else absent) precedes every delta, and cmvn (if requested, else
\* absent) is the last operation on every element of the stacked tensor.
C3_StepOrder ==
  Returns =>
    \A a \in 1..Len(ret.feats) :
      LET q == Requested[a]
          f == ret.feats[a]
          logged == IF q.log THEN <<"log">> ELSE <<>>
          normed == IF q.cmvn THEN <<"cmvn">> ELSE <<>>
          out == Returned(pp, ret.wavs, f)
          last == out.data[Prod(out.shape)]
      IN  q.feat_type \in FeatTypes =>
            /\ q.channel >= 0 => f.index = q.channel
            /\ Len(f.blocks) = Max0(q.delta) + 1
            /\ \A k \in 1..Len(f.blocks) : f.blocks[k] = logged \o Repeat("delta", k - 1)
            /\ f.cmvn = q.cmvn
            /\ out.data[1].ops = logged \o normed
            /\ last.ops = logged \o Repeat("delta", Max0(q.delta)) \o normed
            /\ out.data[1].at[2] = f.index /\ last.at[2] = f.index

\* log, two deltas and cmvn requested together on channel 1
C3_Witness ==
  /\ Returns
  /\ \E a \in 1..Len(ret.feats) :
       /\ Requested[a].log /\ Requested[a].cmvn /\ Requested[a].delta = 2
       /\ Requested[a].channel = 1 /\ Requested[a].feat_type = "mfcc"
       /\ ret.feats[a].blocks[3] = <<"log", "delta", "delta">>
       /\ ret.feats[a].cmvn

\* the errors a request can cause: an under-ranked waveform (AssertionError),
\* an unknown feat_type (KeyError), a channel that is no integer (TypeError)
\* or out of range (IndexError)
RequestErrors == {"AssertionError", "KeyError", "TypeError", "IndexError"}

\* C4: a call of forward that ends in a request error has done no numeric
\* work (no STFT, magnitude/phase, mel or MFCC computation).
C4_EagerErrors ==
  fpc = "forwarded" /\ ret.status \in RequestErrors => ret.work = <<>>

\* what the waveform of the call offers: its channels
ChannelsOf(w) == 0..(w[2] - 1)

Malformed(q, w) ==
  \/ q.feat_type \notin FeatTypes
  \/ q.delta < 0
  \/ ~q.chan_int
  \/ q.channel \notin ChannelsOf(w)

\* C5: a feat_list holding a request with an unrecognised feat_type, a negative
\* delta, a non-integer channel or a channel outside the input's channels makes
\* forward raise: it never returns a feature list.
C5_MalformedRaises ==
  ( /\ fpc = "forwarded"
    /\ ~call.wavs.none /\ Len(call.wavs.val) = 3
    /\ ~call.feat_list.none
    /\ \E a \in 1..Len(Requested) : Malformed(Requested[a], call.wavs.val) )
  => ret.status # "ok"

\* C6: n_fft is (n_freq - 1) * 2; on a waveform (batch, channel, time) the
\* linear and phase features have n_fft / 2 + 1 bins and
\* floor(time / hop_len) + 1 frames, and every feature is returned as
\* (batch, time_frames, feature_dim); (2, 2, 16000) with n_fft = 512 and
\* hop = 256 gives 63 frames and 257 bins.
C6_ShapeContract ==
  /\ pp.n_fft = (pp.args.n_freq - 1) * 2
  /\ Frames(16000, NFft(257), hop(256)) = 63
  /\ NFft(257) = 512 /\ FreqBins(NFft(257)) = 257
  /\ Returns =>
       \A a \in 1..Len(ret.feats) :
         LET q == Requested[a]
             f == ret.feats[a]
             frames == ret.wavs[3] \div pp.args.hop_len + 1
         IN  q.feat_type \in FeatTypes =>
               /\ Len(f.shape) = 3
               /\ f.shape[1] = ret.wavs[1]
               /\ f.shape[2] = frames
               /\ f.shape[3] = (Max0(q.delta) + 1) * FeatureDim(q.feat_type)
               /\ q.feat_type \in {"linear", "phase"} /\ q.delta <= 0 =>
                    f.shape = <<ret.wavs[1], frames, pp.n_fft \div 2 + 1>>

\* a linear feature of a 4-sample waveform at n_fft = 4, hop = 2: 3 frames, 3 bins
C6_Witness ==
  /\ Returns
  /\ pp.args.n_freq = 3 /\ pp.args.hop_len = 2 /\ ret.wavs = <<BatchSize, 2, 4>>
  /\ \E a \in 1..Len(ret.feats) :
       /\ Requested[a] = Plain("linear", 1)
       /\ ret.feats[a].shape = <<BatchSize, 3, 3>>

ViaComplx == fpc = "inverted" /\ Len(rec.via) = 1 /\ rec.status = "ok"

\* C7: for the complx feature forward returned, the tensor istft hands to the
\* inverse transform has the shape (batch, freq_bins, time_frames, 2) and
\* holds at (f, t, part) the element forward took from (f, t, part) of the
\* selected channel's spectrogram.
C7_InterleavedInverse ==
  ViaComplx =>
    LET f == ret.feats[rec.via[1]]
        shape == <<ret.wavs[1], pp.args.n_freq, ret.wavs[3] \div pp.args.hop_len + 1, 2>>
    IN  /\ rec.handed.shape = shape
        /\ \A k \in 1..Prod(shape) :
             LET idx == Unravel(shape, k - 1)
             IN  /\ rec.handed.data[k].of = "complx"
                 /\ rec.handed.data[k].at = <<idx[1], f.index, idx[2], idx[3], idx[4]>>

\* channel 1 of a spectrogram of 3 bins and 3 frames
C7_Witness ==
  /\ ViaComplx
  /\ Requested[rec.via[1]] = Plain("complx", 1)
  /\ rec.handed.shape = <<BatchSize, 3, 3, 2>>

\* ============================================================ claims: train

BodyPcs == {"try", "clip", "eval", "except", "advance"}

\* C8: train processes exactly total_steps batches: the loop body never runs
\* with global_step > total_steps, and train returns with
\* global_step = total_steps + 1 after total_steps runs of the body.
C8_ExactlyTotalSteps ==
  /\ (tpc \in BodyPcs => global_step <= total_steps)
  /\ (tpc = "ret" => global_step = total_steps + 1 /\ ran = total_steps)

\* C9: optimizer.step() runs only after a forward/backward pass that raised
\* nothing and with a finite gradient norm; whatever way a step ends, the
\* gradients are zero when the next batch starts and global_step has advanced
\* by exactly one per batch; a RuntimeError other than CUDA out of memory is
\* never skipped: it leaves train.
C9_GuardedUpdate ==
  /\ (cur.stepped => cur.outcome = "ok" /\ cur.norm = "finite")
  /\ (tpc = "try" => grads = "zero")
  /\ (tpc = "advance" => grads = "zero" /\ cur.raised \in {"none", "oom"})
  /\ (tpc \in BodyPcs => global_step = ran)
  /\ (tpc \in {"while", "for", "ret"} => global_step = ran + 1)
  /\ (cur.raised = "other" /\ tpc # "except" => fn = "raised" /\ tpc = "idle")

\* a step whose update was skipped by the inf guard, after an earlier step
C9_Witness ==
  /\ tpc = "eval" /\ cur.norm = "inf" /\ ~cur.stepped
  /\ grads = "zero" /\ global_step = 2

IsPrefix(s, t) == Len(s) <= Len(t) /\ SubSeq(t, 1, Len(s)) = s

RECURSIVE ProtocolFrom(_, _, _)
ProtocolFrom(t, n, withAgent) ==
  IF t >= n THEN <<>>
  ELSE <<<<"train_begin", t>>, <<"train_end", t>>, <<"save_model", t>>>>
       \o (IF withAgent THEN <<<<"update_weights", t, t>>, <<"save_synapses", t>>>>
           ELSE <<>>)
       \o ProtocolFrom(t + 1, n, withAgent)

Protocol ==
  ProtocolFrom(IF mode = "pretrain_adapt" THEN 0 ELSE 1, config.N,
               lifelong_agent # "none")

TasksBefore(t) == [k \in 1..t |-> k - 1]

\* C10: tasks are handled in increasing order, pretrain task 0 and adapt tasks
\* 1..N-1; update_weights is called once per task, with that task's loader,
\* after its training and its model checkpoint and before the next task's
\* training; the penalty is added only in adapt with an agent, and then it
\* rests on the tasks before the current one only.
C10_TaskProtocol ==
  /\ IsPrefix(events, Protocol)
  /\ (fn = "done" => events = Protocol)
  /\ (fn = "pretrain" => task = 0 /\ ~IsAdapt /\ ~cur.with_penalty)
  /\ (fn = "adapt" => task \in 1..(config.N - 1) /\ IsAdapt)
  /\ (tpc \in BodyPcs /\ cur.with_penalty =>
        fn = "adapt" /\ lifelong_agent # "none" /\ cur.penalty = TasksBefore(task))
  /\ (fn = "adapt" /\ lifelong_agent # "none" /\ cur.outcome = "ok" => cur.with_penalty)

\* training on task 2 with the penalty of tasks 0 and 1
C10_Witness ==
  /\ fn = "adapt" /\ task = 2 /\ tpc = "clip"
  /\ cur.with_penalty /\ cur.penalty = <<0, 1>>
  /\ mode = "pretrain_adapt"

====
